---- MODULE Spec2Model ----
(***************************************************************************)
(* Model of src/pages/service.js (WasherCodes core service logic): the     *)
(* catalog DB, the cached DOM elements els, the catalog fetch, the         *)
(* cascading dropdown handlers, the solution card and the smart search     *)
(* with its two timers.                                                    *)
(*                                                                         *)
(* A JavaScript string is a sequence of one-character strings, so that     *)
(* toLowerCase, trim, includes, template concatenation and the code-unit   *)
(* order of Array.prototype.sort are computed, not assumed.  A JSON object *)
(* is a record whose domain holds the properties that are present; JSON    *)
(* null is NullItem.                                                       *)
(***************************************************************************)
EXTENDS Integers, Sequences, FiniteSets, TLC

VARIABLES
    DB,        \* service.js:7   the catalog
    els,       \* service.js:10  state of the cached DOM elements
    pc,        \* position of the page: "init", "fetching", "loaded", "failed"
    timeout,   \* service.js:57  the debounce timer `timeout` refers to, when it is
               \*                still pending, and the pending ones it lost track of
    deferred,  \* service.js:215 pending 50 ms timers, each holding its match
    last,      \* history: the handler that ran last, its input and its outcome
    load       \* history: catalog when the load began, data assigned to DB, errors shown

vars == <<DB, els, pc, timeout, deferred, last, load>>

----------------------------------------------------------------------------
(* Bounds *)

MaxDB == 2          \* longest data.json array enumerated
MaxTimers == 1      \* most 50 ms timers pending at once
MaxLoads == 2       \* most calls of fetchData()

----------------------------------------------------------------------------
(* Strings *)

Empty == <<>>

\* UTF-16 code units of the characters used, the order sort() compares by.
CharCode(c) ==
    CASE c = " " -> 32
      [] c = "-" -> 45
      [] c = "1" -> 49
      [] c = "A" -> 65
      [] c = "B" -> 66
      [] c = "D" -> 68
      [] c = "F" -> 70
      [] c = "K" -> 75
      [] c = "P" -> 80
      [] c = "W" -> 87
      [] c = "a" -> 97
      [] c = "b" -> 98
      [] c = "d" -> 100
      [] c = "f" -> 102
      [] c = "k" -> 107
      [] c = "p" -> 112
      [] c = "u" -> 117
      [] c = "v" -> 118
      [] c = "w" -> 119

\* the letters have their lower-case form 32 code units up
LowerChar(c) ==
    CASE c = "A" -> "a"
      [] c = "B" -> "b"
      [] c = "D" -> "d"
      [] c = "F" -> "f"
      [] c = "K" -> "k"
      [] c = "P" -> "p"
      [] c = "W" -> "w"
      [] OTHER -> c

\* String.prototype.toLowerCase
ToLowerCase(s) == [i \in DOMAIN s |-> LowerChar(s[i])]

IsSpace(c) == c = " "

RECURSIVE TrimStart(_)
TrimStart(s) ==
    IF s # Empty /\ IsSpace(Head(s)) THEN TrimStart(Tail(s)) ELSE s

RECURSIVE TrimEnd(_)
TrimEnd(s) ==
    IF s # Empty /\ IsSpace(s[Len(s)]) THEN TrimEnd(SubSeq(s, 1, Len(s) - 1)) ELSE s

\* String.prototype.trim
Trim(s) == TrimEnd(TrimStart(s))

\* String.prototype.includes
Includes(s, q) ==
    \E k \in 0..(Len(s) - Len(q)) : SubSeq(s, k + 1, k + Len(q)) = q

\* The default comparison of Array.prototype.sort: by code units, a proper
\* prefix first.
RECURSIVE StrLess(_, _)
StrLess(s, t) ==
    IF t = Empty THEN FALSE
    ELSE IF s = Empty THEN TRUE
    ELSE IF CharCode(Head(s)) # CharCode(Head(t))
         THEN CharCode(Head(s)) < CharCode(Head(t))
    ELSE StrLess(Tail(s), Tail(t))

RECURSIVE InsertSorted(_, _)
InsertSorted(x, sorted) ==
    IF sorted = <<>> THEN <<x>>
    ELSE IF StrLess(x, Head(sorted)) THEN <<x>> \o sorted
    ELSE <<Head(sorted)>> \o InsertSorted(x, Tail(sorted))

\* no sort: insertion order
Unsorted(seq) == seq

\* Array.prototype.sort with no comparator, on strings
RECURSIVE Sort(_)
Sort(seq) ==
    IF seq = <<>> THEN <<>> ELSE InsertSorted(Head(seq), Sort(Tail(seq)))

InSeq(x, seq) == \E i \in DOMAIN seq : seq[i] = x

\* [...new Set(seq)]: the distinct values in insertion order
RECURSIVE Dedupe(_, _)
Dedupe(seq, seen) ==
    IF seq = <<>> THEN seen
    ELSE Dedupe(Tail(seq), IF InSeq(Head(seq), seen) THEN seen ELSE Append(seen, Head(seq)))

\* a spread with no Set: duplicates stay
KeepAll(seq) == seq

Unique(seq) == Dedupe(seq, <<>>)

----------------------------------------------------------------------------
(* Catalog data: what data.json may parse to *)

\* JSON null as an array item: reading a property of it raises a TypeError
NullItem == [null |-> TRUE]

E1 == [brand |-> <<"a", "b">>, type |-> <<"w">>, code |-> <<"f", "1">>,
       issue |-> <<"d", "p">>, fix_summary |-> <<"u">>,
       parts_needed |-> << <<"p">>, <<"k">> >>,
       affiliate_link |-> <<"u">>, video_guide |-> <<"v">>]

\* same brand, another type, the same code
E2 == [brand |-> <<"a", "b">>, type |-> <<"d">>, code |-> <<"f", "1">>,
       issue |-> <<"k">>, fix_summary |-> <<"d", "p">>,
       parts_needed |-> <<>>,
       affiliate_link |-> <<"u">>, video_guide |-> <<"v">>]

\* the key of E1 again with another issue; the optional properties absent
E3 == [brand |-> <<"a", "b">>, type |-> <<"w">>, code |-> <<"f", "1">>,
       issue |-> <<"k">>, fix_summary |-> <<"p">>]

\* the brand of E1 in another case: "Ab" sorts before "ab"
E4 == [brand |-> <<"A", "b">>, type |-> <<"w">>, code |-> <<"f", "1">>,
       issue |-> <<"u">>, fix_summary |-> <<"v">>,
       parts_needed |-> << <<"p">> >>,
       affiliate_link |-> <<"u">>, video_guide |-> <<"v">>]

EntryPool == {E1, E2, E3, E4}

Items == EntryPool \cup {NullItem}

SeqsUpTo(S, n) == UNION {[1..k -> S] : k \in 0..n}

\* the arrays of entries data.json may hold
Catalogs == SeqsUpTo(EntryPool, MaxDB)

\* arrays with a null item: well-formed JSON that is no catalog
Malformed == {d \in SeqsUpTo(Items, 2) : \E i \in DOMAIN d : d[i] = NullItem}

DataSet == Catalogs \cup Malformed

\* the values typed into the search box
Queries ==
    { <<" ", "f", " ">>,          \* one character once trimmed
      <<" ", "D", "P">>,          \* "dp": in the issue of E1 and the fix of E2
      <<"b", " ", "f">>,          \* brand and code of every entry
      <<"k", " ", "p">>,          \* issue and fix of E3 only
      <<"w", " ", "f">> }         \* type and code: the type is not searched

----------------------------------------------------------------------------
(* DOM helpers *)

NoTimer == [pending |-> FALSE, value |-> <<>>, others |-> <<>>]

Timer(v) == [pending |-> TRUE, value |-> v, others |-> <<>>]

\* an input handler with no clearTimeout
keepTimeout(t) == t

\* clearTimeout(timeout): the timer the variable refers to is cancelled
clearTimeout(t) == [t EXCEPT !.pending = FALSE, !.value = <<>>]

\* timeout = setTimeout(..., 300): the variable refers to the new timer; a
\* timer it referred to that was not cancelled stays pending, oldest first
setTimeout(t, v) ==
    [Timer(v) EXCEPT !.others = IF t.pending THEN Append(t.others, t.value) ELSE t.others]

\* the value held by the 300 ms timer that is due first
DueValue(t) == IF t.others # <<>> THEN Head(t.others) ELSE t.value

\* HTMLSelectElement.value = v: the first option with that value becomes
\* selected; with no such option nothing is selected and value reads "".
SetValue(values, v) == IF InSeq(v, values) THEN v ELSE Empty

\* Array.prototype.map / filter call the callback on every item, and the
\* callback reads a property of the item: a null item raises a TypeError.
HasNull(db) == \E i \in DOMAIN db : db[i] = NullItem

\* DB.filter(item => item.brand === selectedBrand)
RECURSIVE FilterBrand(_, _)
FilterBrand(db, brand) ==
    IF db = <<>> THEN <<>>
    ELSE IF Head(db).brand = brand
         THEN <<Head(db)>> \o FilterBrand(Tail(db), brand)
         ELSE FilterBrand(Tail(db), brand)

\* a filter that forgets the type
FilterIgnoringType(db, brand, type) == FilterBrand(db, brand)

\* DB.filter(item => item.brand === selectedBrand && item.type === selectedType)
RECURSIVE FilterBrandType(_, _, _)
FilterBrandType(db, brand, type) ==
    IF db = <<>> THEN <<>>
    ELSE IF Head(db).brand = brand /\ Head(db).type = type
         THEN <<Head(db)>> \o FilterBrandType(Tail(db), brand, type)
         ELSE FilterBrandType(Tail(db), brand, type)

\* Array.prototype.find: the index of the first item the callback accepts,
\* 0 when there is none, -1 when the callback raised on a null item first.
\* A brand, type and code compare with ===: exactly, case-sensitively.
\* a find whose callback compares without regard to case
RECURSIVE FindExactIgnoreCase(_, _, _, _, _)
FindExactIgnoreCase(db, brand, type, code, i) ==
    IF i > Len(db) THEN 0
    ELSE IF db[i] = NullItem THEN -1
    ELSE IF /\ ToLowerCase(db[i].brand) = ToLowerCase(brand)
            /\ ToLowerCase(db[i].type) = ToLowerCase(type)
            /\ ToLowerCase(db[i].code) = ToLowerCase(code) THEN i
    ELSE FindExactIgnoreCase(db, brand, type, code, i + 1)

RECURSIVE FindExact(_, _, _, _, _)
FindExact(db, brand, type, code, i) ==
    IF i > Len(db) THEN 0
    ELSE IF db[i] = NullItem THEN -1
    ELSE IF db[i].brand = brand /\ db[i].type = type /\ db[i].code = code THEN i
    ELSE FindExact(db, brand, type, code, i + 1)

Sp == <<" ">>

\* `${item.brand} ${item.code} ${item.issue} ${item.fix_summary}`.toLowerCase()
FullString(item) ==
    ToLowerCase(item.brand \o Sp \o item.code \o Sp \o item.issue \o Sp \o item.fix_summary)

\* a find that keeps scanning and returns the last item accepted
RECURSIVE FindTextLast(_, _, _)
FindTextLast(db, q, i) ==
    IF i > Len(db) THEN 0
    ELSE IF db[i] = NullItem THEN -1
    ELSE LET later == FindTextLast(db, q, i + 1)
         IN IF later # 0 THEN later
            ELSE IF Includes(FullString(db[i]), q) THEN i ELSE 0

RECURSIVE FindText(_, _, _)
FindText(db, q, i) ==
    IF i > Len(db) THEN 0
    ELSE IF db[i] = NullItem THEN -1
    ELSE IF Includes(FullString(db[i]), q) THEN i
    ELSE FindText(db, q, i + 1)

\* a property that is absent reads undefined
Has(item, field) == field \in DOMAIN item

Undefined == <<"undefined">>

Get(item, field) == IF Has(item, field) THEN item[field] ELSE Undefined

\* an href set to undefined holds the text "undefined"
ToHref(v) == IF v = Undefined THEN <<"u", "n", "d", "e", "f", "i", "n", "e", "d">> ELSE v

\* the state of the cached elements once the document is parsed
InitEls ==
    [ brandOpts    |-> <<>>,     \* values of the options added to brandSelect
      brandVal     |-> Empty,    \* brandSelect.value ("" is the placeholder)
      typeOpts     |-> <<>>,
      typeVal      |-> Empty,
      typeDisabled |-> TRUE,
      codeOpts     |-> <<>>,     \* [value, text] of the options added to codeSelect
      codeVal      |-> Empty,
      codeDisabled |-> TRUE,
      cardHidden   |-> TRUE,     \* class "hidden" on solutionCard
      cardError    |-> FALSE,    \* innerHTML replaced by the load error, display block
      resCode      |-> Empty,
      resIssue     |-> Empty,
      resFix       |-> Empty,
      resParts     |-> [tags |-> <<>>, placeholder |-> FALSE],
      btnBuy       |-> Empty,
      btnVideo     |-> Empty ]

\* the outcome of a handler: the elements it left, and whether it raised
Ret(e) == [threw |-> FALSE, els |-> e]
Throw(e) == [threw |-> TRUE, els |-> e]

----------------------------------------------------------------------------
(* The handlers of service.js, as functions of the catalog and the elements *)

OptionValues(opts) == [i \in DOMAIN opts |-> opts[i].value]

\* a hideSolution that leaves the card as it is
keepSolution(e) == e

hideSolution(e) == [e EXCEPT !.cardHidden = TRUE]

populateBrands(db, e) ==
    IF HasNull(db) THEN Throw(e)
    ELSE LET brands == Sort(Unique([i \in DOMAIN db |-> db[i].brand]))
         IN Ret([e EXCEPT !.brandOpts = e.brandOpts \o brands])

\* a render with no `if (!entry)`: reading entry.code of undefined raises
renderSolutionUnguarded(db, e) ==
    LET i == FindExact(db, e.brandVal, e.typeVal, e.codeVal, 1)
    IN IF i <= 0 THEN Throw(e)
       ELSE Ret([e EXCEPT !.resCode = db[i].code, !.resIssue = db[i].issue,
                          !.resFix = db[i].fix_summary, !.cardHidden = FALSE])

\* a render with no hideSolution() for a selection that has no entry
renderSolutionKeepsCard(db, e) ==
    LET i == FindExact(db, e.brandVal, e.typeVal, e.codeVal, 1)
    IN IF i = -1 THEN Throw(e)
       ELSE IF i = 0 THEN Ret(e)
       ELSE LET entry == db[i]
                parts == Get(entry, "parts_needed")
            IN Ret([e EXCEPT
                     !.resCode = entry.code,
                     !.resIssue = entry.issue,
                     !.resFix = entry.fix_summary,
                     !.resParts = IF parts # Undefined /\ Len(parts) > 0
                                  THEN [tags |-> parts, placeholder |-> FALSE]
                                  ELSE [tags |-> <<>>, placeholder |-> TRUE],
                     !.btnBuy = ToHref(Get(entry, "affiliate_link")),
                     !.btnVideo = ToHref(Get(entry, "video_guide")),
                     !.cardHidden = FALSE])

renderSolution(db, e) ==
    LET i == FindExact(db, e.brandVal, e.typeVal, e.codeVal, 1)
    IN IF i = -1 THEN Throw(e)
       ELSE IF i = 0 THEN Ret(hideSolution(e))
       ELSE LET entry == db[i]
                parts == Get(entry, "parts_needed")
            IN Ret([e EXCEPT
                     !.resCode = entry.code,
                     !.resIssue = entry.issue,
                     !.resFix = entry.fix_summary,
                     !.resParts = IF parts # Undefined /\ Len(parts) > 0
                                  THEN [tags |-> parts, placeholder |-> FALSE]
                                  ELSE [tags |-> <<>>, placeholder |-> TRUE],
                     !.btnBuy = ToHref(Get(entry, "affiliate_link")),
                     !.btnVideo = ToHref(Get(entry, "video_guide")),
                     !.cardHidden = FALSE])

CodeOption(item) ==
    [value |-> item.code, text |-> item.code \o <<" ", "-", " ">> \o item.issue]

updateCodes(db, e, preSelectedCode) ==
    LET e1 == hideSolution([e EXCEPT !.codeOpts = <<>>, !.codeVal = Empty,
                                     !.codeDisabled = TRUE])
    IN IF e1.brandVal = Empty \/ e1.typeVal = Empty THEN Ret(e1)
       ELSE IF HasNull(db) THEN Throw(e1)
       ELSE LET codes == FilterBrandType(db, e1.brandVal, e1.typeVal)
                opts == [i \in DOMAIN codes |-> CodeOption(codes[i])]
                e2 == [e1 EXCEPT !.codeOpts = opts, !.codeDisabled = FALSE]
            IN IF preSelectedCode # Empty
               THEN renderSolution(db,
                        [e2 EXCEPT !.codeVal = SetValue(OptionValues(opts), preSelectedCode)])
               ELSE Ret(e2)

\* an updateTypes that resets the type select alone and leaves the code
\* select as it was
updateTypesKeepCodes(db, e, preSelectedType) ==
    LET e1 == hideSolution([e EXCEPT !.typeOpts = <<>>, !.typeVal = Empty,
                                     !.typeDisabled = TRUE])
    IN IF e1.brandVal = Empty THEN Ret(e1)
       ELSE IF HasNull(db) THEN Throw(e1)
       ELSE LET brandItems == FilterBrand(db, e1.brandVal)
                availableTypes == Unique([i \in DOMAIN brandItems |-> brandItems[i].type])
                e2 == [e1 EXCEPT !.typeOpts = availableTypes, !.typeDisabled = FALSE]
            IN IF preSelectedType # Empty /\ InSeq(preSelectedType, availableTypes)
               THEN updateCodes(db, [e2 EXCEPT !.typeVal = preSelectedType], Empty)
               ELSE Ret(e2)

updateTypes(db, e, preSelectedType) ==
    LET e1 == hideSolution([e EXCEPT !.typeOpts = <<>>, !.typeVal = Empty,
                                     !.codeOpts = <<>>, !.codeVal = Empty,
                                     !.typeDisabled = TRUE, !.codeDisabled = TRUE])
    IN IF e1.brandVal = Empty THEN Ret(e1)
       ELSE IF HasNull(db) THEN Throw(e1)
       ELSE LET brandItems == FilterBrand(db, e1.brandVal)
                availableTypes == Unique([i \in DOMAIN brandItems |-> brandItems[i].type])
                e2 == [e1 EXCEPT !.typeOpts = availableTypes, !.typeDisabled = FALSE]
            IN IF preSelectedType # Empty /\ InSeq(preSelectedType, availableTypes)
               THEN updateCodes(db, [e2 EXCEPT !.typeVal = preSelectedType], Empty)
               ELSE Ret(e2)

\* query.toLowerCase().trim()
Normalize(query) == Trim(ToLowerCase(query))

\* a search with no minimum length
handleSearchNoMinimum(db, e, query) ==
    LET q == Normalize(query)
        i == FindText(db, q, 1)
        none == [outcome |-> "none", idx |-> 0, threw |-> FALSE, els |-> e, timer |-> <<>>]
    IN IF i = -1 THEN [none EXCEPT !.outcome = "threw", !.threw = TRUE]
       ELSE IF i = 0 THEN none
       ELSE LET r == updateTypes(db,
                         [e EXCEPT !.brandVal = SetValue(e.brandOpts, db[i].brand)],
                         db[i].type)
            IN [outcome |-> "match", idx |-> i, threw |-> r.threw, els |-> r.els,
                timer |-> IF r.threw THEN <<>> ELSE <<db[i]>>]

\* a handleSearch that hides the card when nothing matches
handleSearchHidesOnMiss(db, e, query) ==
    LET q == Normalize(query)
        none == [outcome |-> "short", idx |-> 0, threw |-> FALSE, els |-> e, timer |-> <<>>]
    IN IF Len(q) < 2 THEN none
       ELSE LET i == FindText(db, q, 1)
            IN IF i = -1 THEN [none EXCEPT !.outcome = "threw", !.threw = TRUE]
               ELSE IF i = 0 THEN [none EXCEPT !.outcome = "none", !.els = hideSolution(e)]
               ELSE LET match == db[i]
                        r == updateTypes(db,
                                 [e EXCEPT !.brandVal = SetValue(e.brandOpts, match.brand)],
                                 match.type)
                    IN [outcome |-> "match", idx |-> i, threw |-> r.threw, els |-> r.els,
                        timer |-> IF r.threw THEN <<>> ELSE <<match>>]

\* handleSearch: the outcome, the elements, and the match its 50 ms timer
\* holds when it scheduled one.
handleSearch(db, e, query) ==
    LET q == Normalize(query)
        none == [outcome |-> "short", idx |-> 0, threw |-> FALSE, els |-> e, timer |-> <<>>]
    IN IF Len(q) < 2 THEN none
       ELSE LET i == FindText(db, q, 1)
            IN IF i = -1 THEN [none EXCEPT !.outcome = "threw", !.threw = TRUE]
               ELSE IF i = 0 THEN [none EXCEPT !.outcome = "none"]
               ELSE LET match == db[i]
                        r == updateTypes(db,
                                 [e EXCEPT !.brandVal = SetValue(e.brandOpts, match.brand)],
                                 match.type)
                    IN [outcome |-> "match", idx |-> i, threw |-> r.threw, els |-> r.els,
                        timer |-> IF r.threw THEN <<>> ELSE <<match>>]

----------------------------------------------------------------------------
(* The page as a state machine *)

NoData == [delivered |-> FALSE, value |-> <<>>]

Data(d) == [delivered |-> TRUE, value |-> d]

Ran(op, threw) == [op |-> op, outcome |-> "", idx |-> 0, threw |-> threw]

Init ==
    /\ DB = <<>>
    /\ els = InitEls
    /\ pc = "init"
    /\ timeout = NoTimer
    /\ deferred = <<>>
    /\ last = Ran("none", FALSE)
    /\ load = [before |-> <<>>, assigned |-> NoData, outcome |-> "none", errors |-> 0, runs |-> 0]

\* the catch handler of fetchData
showLoadError(e) == [e EXCEPT !.cardError = TRUE]

\* fetchData() up to its first await: the request is sent
fetchData ==
    /\ pc' = "fetching"
    /\ load' = [load EXCEPT !.before = DB, !.outcome = "none", !.runs = @ + 1]
    /\ last' = Ran("fetchData", FALSE)
    /\ UNCHANGED <<DB, els, timeout, deferred>>

\* DOMContentLoaded: fetchData() sends the request, setupEventListeners()
\* attaches the handlers.
DOMContentLoaded ==
    /\ pc = "init"
    /\ fetchData

\* fetchData() called once more after an earlier load has settled
Reload ==
    /\ pc \in {"loaded", "failed"}
    /\ load.runs < MaxLoads
    /\ fetchData

\* fetch rejects, the response is not OK, or response.json() fails to parse:
\* the second then-handler is skipped and the catch handler runs.
FetchFail ==
    /\ pc = "fetching"
    /\ pc' = "failed"
    /\ els' = showLoadError(els)
    /\ load' = [load EXCEPT !.outcome = "failed", !.errors = @ + 1]
    /\ last' = Ran("catch", FALSE)
    /\ UNCHANGED <<DB, timeout, deferred>>

\* the response parses to data: DB = data, then populateBrands(); when that
\* raises, the catch handler runs in the same turn of the event loop.
FetchSuccess(data) ==
    /\ pc = "fetching"
    /\ DB' = data
    /\ LET r == populateBrands(data, els)
       IN IF r.threw
          THEN /\ pc' = "failed"
               /\ els' = showLoadError(r.els)
               /\ load' = [load EXCEPT !.assigned = Data(data), !.outcome = "failed", !.errors = @ + 1]
               /\ last' = Ran("catch", TRUE)
          ELSE /\ pc' = "loaded"
               /\ els' = r.els
               /\ load' = [load EXCEPT !.assigned = Data(data), !.outcome = "ok"]
               /\ last' = Ran("populateBrands", FALSE)
    /\ UNCHANGED <<timeout, deferred>>

Listening == pc # "init"

\* the user picks another option of brandSelect: 'change' runs updateTypes()
BrandChange(b) ==
    /\ Listening
    /\ b # els.brandVal
    /\ b = Empty \/ InSeq(b, els.brandOpts)
    /\ LET r == updateTypes(DB, [els EXCEPT !.brandVal = b], Empty)
       IN /\ els' = r.els
          /\ last' = Ran("updateTypes", r.threw)
    /\ UNCHANGED <<DB, pc, timeout, deferred, load>>

\* the user picks another option of typeSelect: 'change' runs updateCodes()
TypeChange(t) ==
    /\ Listening
    /\ ~els.typeDisabled
    /\ t # els.typeVal
    /\ t = Empty \/ InSeq(t, els.typeOpts)
    /\ LET r == updateCodes(DB, [els EXCEPT !.typeVal = t], Empty)
       IN /\ els' = r.els
          /\ last' = Ran("updateCodes", r.threw)
    /\ UNCHANGED <<DB, pc, timeout, deferred, load>>

\* the user picks another option of codeSelect: 'change' runs renderSolution()
CodeChange(c) ==
    /\ Listening
    /\ ~els.codeDisabled
    /\ c # els.codeVal
    /\ c = Empty \/ InSeq(c, OptionValues(els.codeOpts))
    /\ LET r == renderSolution(DB, [els EXCEPT !.codeVal = c])
       IN /\ els' = r.els
          /\ last' = Ran("renderSolution", r.threw)
    /\ UNCHANGED <<DB, pc, timeout, deferred, load>>

\* window.showSolution(), called by a generated page
ShowSolution ==
    /\ LET r == renderSolution(DB, els)
       IN /\ els' = r.els
          /\ last' = Ran("renderSolution", r.threw)
    /\ UNCHANGED <<DB, pc, timeout, deferred, load>>

\* 'input' on the search box: the pending timer is cleared, a new one set
SearchInput(v) ==
    /\ Listening
    /\ timeout' = setTimeout(clearTimeout(timeout), v)
    /\ last' = Ran("input", FALSE)
    /\ UNCHANGED <<DB, els, pc, deferred, load>>

\* the 300 ms timer fires: handleSearch(e.target.value)
SearchTimer ==
    /\ timeout.pending \/ timeout.others # <<>>
    /\ LET r == handleSearch(DB, els, DueValue(timeout))
       IN /\ Len(deferred) + Len(r.timer) <= MaxTimers
          /\ els' = r.els
          /\ deferred' = deferred \o r.timer
          /\ last' = [op |-> "handleSearch", outcome |-> r.outcome,
                      idx |-> r.idx, threw |-> r.threw]
    /\ timeout' = IF timeout.others # <<>>
                  THEN [timeout EXCEPT !.others = Tail(@)]
                  ELSE NoTimer
    /\ UNCHANGED <<DB, pc, load>>

\* the 50 ms timer fires: els.code.value = match.code; renderSolution()
DeferredTimer ==
    /\ deferred # <<>>
    /\ LET match == Head(deferred)
           r == renderSolution(DB,
                    [els EXCEPT !.codeVal = SetValue(OptionValues(els.codeOpts), match.code)])
       IN /\ els' = r.els
          /\ last' = Ran("timer", r.threw)
    /\ deferred' = Tail(deferred)
    /\ UNCHANGED <<DB, pc, timeout, load>>

Next ==
    \/ DOMContentLoaded
    \/ FetchFail
    \/ \E data \in DataSet : FetchSuccess(data)
    \/ \E b \in {Empty} \cup {e.brand : e \in EntryPool} : BrandChange(b)
    \/ \E t \in {Empty} \cup {e.type : e \in EntryPool} : TypeChange(t)
    \/ \E c \in {Empty} \cup {e.code : e \in EntryPool} : CodeChange(c)
    \/ ShowSolution
    \/ \E v \in Queries : SearchInput(v)
    \/ SearchTimer
    \/ DeferredTimer

Spec == Init /\ [][Next]_vars

\* the loads alone, with fetchData() called again after a load has settled
NextReload ==
    \/ DOMContentLoaded
    \/ FetchFail
    \/ \E data \in DataSet : FetchSuccess(data)
    \/ Reload

SpecReload == Init /\ [][NextReload]_vars

----------------------------------------------------------------------------
(* Properties *)

\* every item of the array is an entry
IsCatalog(db) == \A i \in DOMAIN db : db[i] \in EntryPool

UpperChar(c) ==
    CASE c = "a" -> "A"
      [] c = "b" -> "B"
      [] c = "d" -> "D"
      [] c = "f" -> "F"
      [] c = "k" -> "K"
      [] c = "p" -> "P"
      [] c = "w" -> "W"
      [] OTHER -> c

\* the upper/lower-case variants of a string
RECURSIVE CaseVariants(_)
CaseVariants(s) ==
    IF s = <<>> THEN {<<>>}
    ELSE {<<c>> \o r : c \in {LowerChar(Head(s)), UpperChar(LowerChar(Head(s)))},
                       r \in CaseVariants(Tail(s))}

Least(S) == CHOOSE i \in S : \A j \in S : i <= j

\* "brand code issue fix_summary", lower-cased
SearchedText(item) ==
    ToLowerCase(item.brand \o <<" ">> \o item.code \o <<" ">> \o item.issue
                \o <<" ">> \o item.fix_summary)

\* the step is a run of handleSearch by the debounce timer
SearchRuns == last'.op = "handleSearch" /\ timeout.pending /\ SearchTimer

\* C1: whenever handleSearch runs on a catalog with a query whose trimmed,
\* lower-cased form q has at least 2 characters, it selects the entry of
\* least index whose lower-cased "brand code issue fix_summary" contains q
\* (the brand and type dropdowns take its brand and type and its deferred
\* render is scheduled), it selects nothing and changes nothing when no
\* entry contains q, and every upper/lower-case variant of the query gives
\* the same result.
C1_SearchSelectsFirstMatch ==
    [][ (SearchRuns /\ IsCatalog(DB) /\ Len(Trim(ToLowerCase(timeout.value))) >= 2) =>
          LET q == Trim(ToLowerCase(timeout.value))
              hits == {i \in DOMAIN DB : Includes(SearchedText(DB[i]), q)}
          IN /\ hits = {} =>
                  /\ last'.outcome = "none"
                  /\ deferred' = deferred
                  /\ els' = els
             /\ hits # {} =>
                  /\ last'.outcome = "match"
                  /\ last'.idx = Least(hits)
                  /\ deferred' = Append(deferred, DB[Least(hits)])
                  /\ els'.brandVal = DB[Least(hits)].brand
                  /\ els'.typeVal = DB[Least(hits)].type
             /\ \A v \in CaseVariants(timeout.value) :
                  LET r == handleSearch(DB, els, v)
                  IN r.idx = last'.idx /\ r.els = els'
      ]_vars

\* a search on the catalog [E2, E1], whose two entries contain every query
\* that E2 contains, selected E2
C1_Witness ==
    /\ last.op = "handleSearch"
    /\ last.outcome = "match"
    /\ DB = <<E2, E1>>
    /\ last.idx = 1
    /\ deferred = <<E2>>
    /\ els.brandVal = E2.brand
    /\ els.typeVal = E2.type

\* the indexes of the entries with the selected brand, type and code
KeyHits(db, e) ==
    {i \in DOMAIN db : /\ db[i].brand = e.brandVal
                       /\ db[i].type = e.typeVal
                       /\ db[i].code = e.codeVal}

RenderRan == last.op \in {"renderSolution", "timer"}

\* C2: after every run of renderSolution on a catalog, the card is hidden
\* when no entry has exactly the selected brand, type and code, and
\* otherwise it is visible and shows the code, issue and fix of the first
\* entry whose three fields equal the selection case-sensitively.
C2_ExactLookup ==
    (RenderRan /\ IsCatalog(DB)) =>
        LET hits == KeyHits(DB, els)
        IN IF hits = {} THEN els.cardHidden
           ELSE /\ ~els.cardHidden
                /\ els.resCode = DB[Least(hits)].code
                /\ els.resIssue = DB[Least(hits)].issue
                /\ els.resFix = DB[Least(hits)].fix_summary

\* on [E4, E1] with brand "ab" selected, renderSolution passed over E4
\* ("Ab") and showed E1
C2_Witness ==
    /\ last.op = "renderSolution"
    /\ DB = <<E4, E1>>
    /\ els.brandVal = E1.brand
    /\ ~els.cardHidden
    /\ els.resIssue = E1.issue

\* the indexes of the entries of the selected brand and type
CodeHits(db, e) ==
    {i \in DOMAIN db : db[i].brand = e.brandVal /\ db[i].type = e.typeVal}

\* the k-th smallest member of a set of indexes
Nth(S, k) == CHOOSE i \in S : Cardinality({j \in S : j < i}) = k - 1

\* updateCodes ran last: on a type change, or under a search that matched
CodesRan ==
    \/ last.op = "updateCodes"
    \/ last.op = "handleSearch" /\ last.outcome = "match"

\* C3: after every run of updateCodes on a catalog, the code options are one
\* per entry whose brand and type equal the selection, in catalog order,
\* duplicates of a code included, each with the entry's code as value and
\* "code - issue" as text; with the brand or the type unselected there is
\* none.
C3_CodeListing ==
    (CodesRan /\ IsCatalog(DB)) =>
        LET hits == IF els.brandVal = Empty \/ els.typeVal = Empty
                    THEN {} ELSE CodeHits(DB, els)
        IN /\ Len(els.codeOpts) = Cardinality(hits)
           /\ \A k \in DOMAIN els.codeOpts :
                /\ els.codeOpts[k].value = DB[Nth(hits, k)].code
                /\ els.codeOpts[k].text =
                       DB[Nth(hits, k)].code \o <<" ", "-", " ">> \o DB[Nth(hits, k)].issue

\* on [E3, E1], two entries with one key, updateCodes listed both, E3 first
C3_Witness ==
    /\ last.op = "updateCodes"
    /\ DB = <<E3, E1>>
    /\ Len(els.codeOpts) = 2
    /\ els.codeOpts[1].value = els.codeOpts[2].value
    /\ els.codeOpts[1].text = E3.code \o <<" ", "-", " ">> \o E3.issue

\* the index of the first entry of the selected brand with type t
FirstSeen(db, e, t) ==
    Least({i \in DOMAIN db : db[i].brand = e.brandVal /\ db[i].type = t})

TypesRan ==
    \/ last.op = "updateTypes"
    \/ last.op = "handleSearch" /\ last.outcome = "match"

\* C4: after every run of updateTypes on a catalog, the type options hold
\* each type of the entries of the selected brand exactly once, ordered by
\* the index of its first occurrence; with no brand selected, or a brand no
\* entry has, there is none.
C4_TypeListing ==
    (TypesRan /\ IsCatalog(DB)) =>
        LET types == IF els.brandVal = Empty THEN {}
                     ELSE {DB[i].type : i \in {j \in DOMAIN DB : DB[j].brand = els.brandVal}}
        IN /\ {els.typeOpts[k] : k \in DOMAIN els.typeOpts} = types
           /\ Len(els.typeOpts) = Cardinality(types)
           /\ \A a, b \in DOMAIN els.typeOpts :
                a < b => FirstSeen(DB, els, els.typeOpts[a]) < FirstSeen(DB, els, els.typeOpts[b])

\* on [E1, E2] the types of brand "ab" are listed "w" then "d": first seen,
\* not sorted
C4_Witness ==
    /\ last.op = "updateTypes"
    /\ DB = <<E1, E2>>
    /\ els.brandVal = E1.brand
    /\ els.typeOpts = <<E1.type, E2.type>>

\* C5: once populateBrands has run on the loaded catalog, the brand options
\* hold each brand of the catalog exactly once, in ascending code-unit
\* order; for an empty catalog there is none.
C5_BrandListing ==
    pc = "loaded" =>
        /\ {els.brandOpts[k] : k \in DOMAIN els.brandOpts} = {DB[i].brand : i \in DOMAIN DB}
        /\ Len(els.brandOpts) = Cardinality({DB[i].brand : i \in DOMAIN DB})
        /\ \A a, b \in DOMAIN els.brandOpts :
             a < b => StrLess(els.brandOpts[a], els.brandOpts[b])

\* on [E1, E4] the brands are listed "Ab" then "ab": sorted, not first seen
C5_Witness ==
    /\ pc = "loaded"
    /\ DB = <<E1, E4>>
    /\ els.brandOpts = <<E4.brand, E1.brand>>

\* C6: whenever handleSearch runs with a query of fewer than 2 characters
\* once trimmed, on any array the catalog holds, it returns before the scan:
\* nothing is selected, no element changes, no timer is scheduled and no
\* error is raised.
C6_ShortQueryNotFound ==
    [][ (SearchRuns /\ Len(Trim(timeout.value)) < 2) =>
          /\ last'.outcome = "short"
          /\ last'.idx = 0
          /\ ~last'.threw
          /\ els' = els
          /\ deferred' = deferred
          /\ DB' = DB
      ]_vars

\* a search for a query too short ran on a catalog of two entries, which
\* both contain the letter "f" the query trims to
C6_Witness ==
    /\ last.op = "handleSearch"
    /\ last.outcome = "short"
    /\ IsCatalog(DB)
    /\ Len(DB) = 2
    /\ deferred = <<>>

\* C7: whenever fetchData ended in its catch handler, the catalog is what it
\* was when the load began.
C7_FailedLoadKeepsCatalog ==
    load.outcome = "failed" => DB = load.before

\* C8: a load ends either loaded, with the catalog assigned and no error
\* shown, or failed, with the error shown once and the catalog not replaced
\* by that load.
C8_OneOutcomePerLoad ==
    /\ pc = "loaded" =>
         /\ load.errors = 0
         /\ ~els.cardError
         /\ load.assigned.delivered /\ DB = load.assigned.value
    /\ pc = "failed" =>
         /\ load.errors = 1
         /\ els.cardError
         /\ ~load.assigned.delivered

C10_CatalogFromSuccessfulLoad ==
    \/ DB = <<>>
    \/ load.outcome = "ok" /\ DB = load.assigned.value

\* the number of 300 ms timers pending
PendingSearches(t) == Len(t.others) + (IF t.pending THEN 1 ELSE 0)

\* C18: at most one search timer is pending at any time; after every input
\* event the one pending timer is the one holding that event's value; and
\* every run of handleSearch is the firing of that one timer, so it searches
\* the value of the most recent input event and leaves no timer pending.
C18_Debounce ==
    /\ [](PendingSearches(timeout) <= 1)
    /\ [][ /\ last'.op = "input" =>
                /\ PendingSearches(timeout') = 1
                /\ timeout'.pending
                /\ \E v \in Queries : SearchInput(v) /\ timeout'.value = v
           /\ last'.op = "handleSearch" =>
                /\ PendingSearches(timeout) = 1
                /\ timeout.pending
                /\ LET r == handleSearch(DB, els, timeout.value)
                   IN els' = r.els /\ last'.outcome = r.outcome /\ last'.idx = r.idx
                /\ PendingSearches(timeout') = 0
       ]_vars

\* an input event came after a search had already run and matched; its
\* timer is the one pending
C18_Witness ==
    /\ last.op = "input"
    /\ deferred # <<>>
    /\ timeout = Timer(<<"k", " ", "p">>)

\* C11: a load replaces the catalog wholesale and is idempotent: after every
\* successful load, a second one included, the catalog is the loaded sequence
\* and the brand options offered are exactly the sorted distinct brands of
\* that sequence, as after loading it once.
C11_LoadIdempotent ==
    pc = "loaded" =>
        /\ DB = load.assigned.value
        /\ els.brandOpts = populateBrands(load.assigned.value, InitEls).els.brandOpts

\* the optional field of an entry, empty when the entry has none
OrEmpty(item, field) == IF field \in DOMAIN item THEN item[field] ELSE <<>>

\* C12: after every render that shows an entry, absent optional fields count
\* as empty: with parts_needed absent or empty the placeholder is shown and
\* no tag, otherwise one tag per part in order and no placeholder; the buy and
\* video link targets are the entry's affiliate_link and video_guide, empty
\* when the entry has none.
C12_AbsentFieldsAreEmpty ==
    (RenderRan /\ IsCatalog(DB) /\ ~els.cardHidden) =>
        LET entry == DB[Least(KeyHits(DB, els))]
            parts == OrEmpty(entry, "parts_needed")
        IN /\ els.resParts.tags = parts
           /\ els.resParts.placeholder = (parts = <<>>)
           /\ els.btnBuy = OrEmpty(entry, "affiliate_link")
           /\ els.btnVideo = OrEmpty(entry, "video_guide")

\* C13: after every run of updateTypes not given a valid pre-selected type
\* (a brand change) the type selection is empty, the code listing is empty
\* and disabled, the code selection is empty and the card is hidden, and the
\* type dropdown is enabled only if a brand is selected; after every run of
\* updateCodes without a pre-selected code (a type change, or the call under
\* a search that matched) the code selection is empty and the card is
\* hidden, and the code dropdown is enabled only if both a brand and a type
\* are selected.
C13_CascadeResetsDownstream ==
    /\ last.op = "updateTypes" =>
         /\ els.typeVal = Empty
         /\ els.codeOpts = <<>>
         /\ els.codeDisabled
         /\ els.codeVal = Empty
         /\ els.cardHidden
         /\ ~els.typeDisabled => els.brandVal # Empty
    /\ CodesRan =>
         /\ els.codeVal = Empty
         /\ els.cardHidden
         /\ ~els.codeDisabled => (els.brandVal # Empty /\ els.typeVal # Empty)

\* a brand change to another brand after an entry had been shown: the card's
\* content is still there, the card is hidden and the types are offered
C13_Witness ==
    /\ last.op = "updateTypes"
    /\ els.brandVal # Empty
    /\ els.resCode # Empty
    /\ els.typeOpts # <<>>
    /\ els.cardHidden

\* the indexes of the entries of the selected brand
BrandHits(db, e) == {i \in DOMAIN db : db[i].brand = e.brandVal}

\* C14: in every state after the catalog is loaded, whatever brand, type and
\* code changes, searches and timer firings led to it, the type options are
\* the distinct types of the entries of the selected brand, each once (none
\* with no brand selected), and the code options are one per entry of the
\* selected brand and type, in catalog order (none with the brand or the
\* type unselected): no option of an earlier selection is left over.
C14_CascadeConsistent ==
    pc = "loaded" =>
        LET types == IF els.brandVal = Empty THEN {}
                     ELSE {DB[i].type : i \in BrandHits(DB, els)}
            codes == IF els.brandVal = Empty \/ els.typeVal = Empty THEN {}
                     ELSE CodeHits(DB, els)
        IN /\ {els.typeOpts[k] : k \in DOMAIN els.typeOpts} = types
           /\ Len(els.typeOpts) = Cardinality(types)
           /\ Len(els.codeOpts) = Cardinality(codes)
           /\ \A k \in DOMAIN els.codeOpts :
                  els.codeOpts[k].value = DB[Nth(codes, k)].code
           /\ els.typeVal = Empty \/ els.typeVal \in types
           /\ els.codeVal = Empty \/ \E i \in codes : DB[i].code = els.codeVal

\* the timer of a search has rendered its match and both entries of the
\* selected brand and type are offered as codes
C14_Witness ==
    /\ pc = "loaded"
    /\ last.op = "timer"
    /\ ~els.cardHidden
    /\ Len(els.codeOpts) = 2
    /\ Len(els.typeOpts) = 1

\* the entry a search that matched has found
Matched == DB[last.idx]

\* the search box's handler has just found a match
SearchMatched == last.op = "handleSearch" /\ last.outcome = "match"

\* e shows the card with the text of item
Shows(e, item) ==
    /\ ~e.cardHidden
    /\ e.resCode = item.code
    /\ e.resIssue = item.issue
    /\ e.resFix = item.fix_summary

\* C15: when handleSearch has found a match its 50 ms timer is pending, and
\* when that timer fires with no other event in between, the brand, type and
\* code dropdowns select the match's brand, type and code and the card is
\* visible showing exactly the entry the search matched.
C15_SearchShowsItsMatch ==
    /\ [](SearchMatched => deferred # <<>>)
    /\ [][ (last'.op = "timer" /\ SearchMatched /\ Len(deferred) = 1) =>
              /\ els'.brandVal = Matched.brand
              /\ els'.typeVal = Matched.type
              /\ els'.codeVal = Matched.code
              /\ Shows(els', Matched)
       ]_vars

\* no two entries of the catalog have the same brand, type and code
UniqueKeys(db) ==
    /\ IsCatalog(db)
    /\ \A i, j \in DOMAIN db :
           (/\ db[i].brand = db[j].brand
            /\ db[i].type = db[j].type
            /\ db[i].code = db[j].code) => i = j

\* C16: whatever brand, type and code changes and further searches come
\* between a search's match and the firing of its 50 ms timer, when the
\* timer's render shows the card, the entry selected and shown is the entry
\* that search matched (stated on catalogs with unique keys, where the entry
\* shown is identified by the selection).
C16_TimerShowsItsMatch ==
    [][ (last'.op = "timer" /\ ~els'.cardHidden /\ UniqueKeys(DB)) =>
            DB[Least(KeyHits(DB, els'))] = Head(deferred)
      ]_vars

\* C17: in every state after a successful load, whatever dropdown changes,
\* searches and timer firings led to it, a visible card shows the exact
\* lookup result of the current selection: some entry has the selected brand,
\* type and code, and the card's code, issue, fix and parts are those of the
\* first such entry.
C17_CardAgreesWithSelection ==
    (pc = "loaded" /\ ~els.cardHidden) =>
        LET hits == KeyHits(DB, els)
        IN /\ hits # {}
           /\ Shows(els, DB[Least(hits)])
           /\ els.resParts.tags = OrEmpty(DB[Least(hits)], "parts_needed")

\* a code change has rendered an entry that lists parts, with two codes
\* offered for the selected brand and type
C17_Witness ==
    /\ pc = "loaded"
    /\ last.op = "renderSolution"
    /\ ~els.cardHidden
    /\ Len(els.codeOpts) = 2
    /\ els.resParts.tags # <<>>

\* no entry of db contains the normalized query q
NoEntryContains(db, q) ==
    \A i \in DOMAIN db : db[i] # NullItem => ~Includes(SearchedText(db[i]), q)

\* C19: a run of handleSearch whose normalized query is shorter than 2
\* characters, or is contained in no entry, leaves every dropdown's selection,
\* options and enabled flag and the card's visibility and content as they
\* were, and schedules no timer.
C19_NotFoundChangesNothing ==
    [][ (SearchRuns /\ LET q == Normalize(timeout.value)
                       IN Len(q) < 2 \/ NoEntryContains(DB, q)) =>
            /\ els' = els
            /\ deferred' = deferred
            /\ DB' = DB
      ]_vars

\* a search found nothing on a catalog with entries while a card was shown,
\* and the card is still shown
C19_Witness ==
    /\ last.op = "handleSearch"
    /\ last.outcome = "none"
    /\ DB # <<>>
    /\ ~els.cardHidden
    /\ deferred = <<>>

====
